---- MODULE Spec2Model ----
(***************************************************************************)
(* A model of the go-chaff Tracker: the rolling window of request samples, *)
(* the buffered channel that feeds it, the updater goroutine, Close, the   *)
(* HandleTrack middleware with its chaff and real paths, and the latency   *)
(* normalisation of chaff responses.                                        *)
(*                                                                         *)
(* The current sources of the tracker are the second file held in          *)
(* src/tracker_test.go (lines 194-461); src/tracker.go is an older form.   *)
(***************************************************************************)
EXTENDS Integers, Naturals, Sequences, FiniteSets, TLC

(***************************************************************************)
(* Bounds of the model.                                                    *)
(***************************************************************************)
\* Largest capacity of a tracker that serves requests.
MaxCap == 1
\* Largest capacity of the window specification besides DefaultCapacity.
MaxWindowCap == 3
\* Number of goroutines serving requests concurrently.
NumHandlers == 2
\* Total number of requests served in one behaviour.
MaxRequests == 2
\* Number of times the owner calls Close, one call after the other.
MaxCloses == 2
\* Number of different responses the wrapped handler can give.
NumKinds == 2
\* Number of direct recordRequest calls in the window specification.
MaxRecords == 5
\* Largest field value of a sample in the window specification.
MaxField == 2
\* Width of a machine word: stands for the 64 bits of uint64 and int64.
WordBits == 10
\* Nanoseconds per millisecond: stands for time.Millisecond (1e6 ns).
Millisecond == 64
\* Largest extra time the scheduler adds to a sleep, in nanoseconds.
MaxOversleepNs == 1
\* Calls the wrapped handler makes on its response writer.
MaxCalls == 3
\* Largest header and body size of a profile handed to a responder.
MaxSize == 256
\* Largest slice make() provides: stands for the runtime's allocation limit.
MaxAlloc == 200
\* Largest capacity, and number of samples recorded beforehand, in the
\* specification of real requests alone.
MaxPipeCap == 2
MaxEarlier == 3

\* const DefaultCapacity
DefaultCapacity == 100

(***************************************************************************)
(* Machine integers.  uint64 arithmetic is modulo 2^WordBits; a conversion *)
(* to int64 (time.Duration) keeps the bit pattern.                         *)
(***************************************************************************)
RECURSIVE Pow2(_)
Pow2(n) == IF n = 0 THEN 1 ELSE 2 * Pow2(n - 1)

Uint64Mod == Pow2(WordBits)

MaxInt64 == Pow2(WordBits - 1) - 1

\* The value of x as a uint64.
ToUint64(x) == x % Uint64Mod

\* The value of the word x (0 <= x < Uint64Mod) read as an int64.
ToInt64(x) == IF x % Uint64Mod > MaxInt64 THEN (x % Uint64Mod) - Uint64Mod ELSE x % Uint64Mod

(***************************************************************************)
(* Samples: type request.                                                  *)
(***************************************************************************)
request(l, b, h) == [latencyMs |-> l, bodySize |-> b, headerSize |-> h]

\* &request{}
ZeroRequest == request(0, 0, 0)

\* The nil *request: what a receive from a closed and empty channel yields.
NilRequest == [nil |-> TRUE]

\* newRequest: the elapsed time comes from the monotonic clock, so it is a
\* non-negative Duration (int64 nanoseconds) cut down to milliseconds.
newRequest(start, end, headerSize, bodySize) ==
    request(ToUint64((end - start) \div Millisecond), bodySize, headerSize)

\* The sample of a request whose wrapped handler gave response kind k: it took
\* k milliseconds, set 2k header bytes and wrote 3k body bytes.
KindSample(k) == newRequest(0, k * Millisecond, 2 * k, 3 * k)

(***************************************************************************)
(* The queue t.ch: a buffered channel, first in, first out.                *)
(***************************************************************************)
\* A send that puts the sample ahead of those waiting.
Enqueue_AtFront(q, rec) == <<rec>> \o q

\* t.ch <- rec, when the buffer has room
Enqueue(q, rec) == Append(q, rec)

(***************************************************************************)
(* The circular buffer.                                                    *)
(***************************************************************************)
\* The overwrite landing on the newest sample.
StoreRecord_Newest(buf, sz, c, p, rec) ==
    IF sz < c THEN Append(buf, rec) ELSE [buf EXCEPT ![((p + c - 1) % c) + 1] = rec]

\* recordRequest, the write of the buffer: append while size < cap, else
\* overwrite at pos.
StoreRecord(buf, sz, c, p, rec) ==
    IF sz < c THEN Append(buf, rec) ELSE [buf EXCEPT ![p + 1] = rec]

\* A size that grows with every insert.
NextSize_Unbounded(sz, c) == sz + 1

\* recordRequest, the size after the insert.
NextSize(sz, c) == IF sz < c THEN sz + 1 ELSE sz

\* A cursor that never moves.
NextPos_Stuck(sz, c, p) == p

\* recordRequest, the cursor after the insert.
NextPos(sz, c, p) == IF sz < c THEN p ELSE (p + 1) % c

RECURSIVE SumField(_, _)
\* The sum of a field over a buffer in uint64 arithmetic, as the range loop of
\* CalculateProfile accumulates it.
SumField(buf, f) ==
    IF buf = <<>> THEN 0
    ELSE ToUint64(SumField(Tail(buf), f) + Head(buf)[f])

\* CalculateProfile, the computation under the read lock.
CalculateProfile(buf, sz) ==
    IF sz = 0 THEN ZeroRequest
    ELSE request(SumField(buf, "latencyMs") \div sz,
                 SumField(buf, "bodySize") \div sz,
                 SumField(buf, "headerSize") \div sz)

(***************************************************************************)
(* sync.RWMutex: w is the writer's state, r the number of readers.         *)
(***************************************************************************)
MuFree == [w |-> "free", r |-> 0]

\* A read lock that does not look at the writer.
CanRLock_Always(m) == TRUE

\* RLock proceeds unless a writer holds the lock or has announced itself.
CanRLock(m) == m.w = "free"

\* A lock no writer ever gets at once.
CanLock_Never(m) == FALSE

\* Lock proceeds once the readers have left.
CanLock(m) == m.r = 0

\* A choice of path that never asks the detector.
IsChaffPath_DetectorOnly(d, c) == d # "nil"

\* HandleTrack: the chaff path is taken when a detector is given and it says so.
IsChaffPath(d, c) == d # "nil" /\ c

\* A capacity check without the upper limit.
CapInvalid_NoUpper(c) == c < 1

\* NewTracker: the capacity check.
CapInvalid(c) == c < 1 \/ c > DefaultCapacity

(***************************************************************************)
(* State.                                                                  *)
(***************************************************************************)
VARIABLES
    tracker,      \* "unset" before NewTracker, then "nil" or "live"
    err,          \* NewTracker's error: "unset", "none", "cap", "responder"
    cap,          \* the capacity given to NewTracker; t.cap
    resp,         \* the responder given to NewTracker; t.resp
    buffer,       \* t.buffer
    size,         \* t.size
    pos,          \* t.pos
    ch,           \* the samples buffered in t.ch
    chClosed,     \* t.ch is closed
    doneClosed,   \* t.done is closed
    mu,           \* t.mu
    upc,          \* where the updater goroutine is
    urec,         \* the record the updater received
    stops,        \* how many stop signals the updater received
    cpc,          \* where the caller of Close is
    closeCalls,   \* Close calls started
    closeReturns, \* Close calls returned
    hpc,          \* where each request handler is
    hd,           \* the detector of each handler, "nil" or "det"
    hchaff,       \* whether the request carries the chaff mark
    hrec,         \* the sample a real request built
    hsz,          \* CalculateProfile: t.size as first read
    hres,         \* CalculateProfile: the returned profile
    nextCalls,    \* calls of the wrapped handler in the current request
    respCalls,    \* calls of the responder in the current request
    reqs,         \* requests started
    recorded,     \* history: the samples recorded, in order
    profile,      \* window specification: the last profile returned
    profileAt,    \* window specification: Len(recorded) at that call
    lpc,          \* latency specification: position in the chaff handler
    targetMs,     \* details.latencyMs
    elapsedNs,    \* time.Since(start) inside normalizeLatnecy
    remMs,        \* rem
    sleepNs,      \* the Duration given to time.Sleep
    totalNs,      \* time from the start of the chaff handler to its return
    \* One real request seen from the wrapped handler's side.
    ppc,          \* "idle", "next" (inside next.ServeHTTP) or "returned"
    wt,           \* the writeThrough proxy: its writer w and its size
    direct,       \* the writer of the same handler called without the proxy
    wret,         \* what the proxy returned from the last call
    dret,         \* what the writer returned from the same call made directly
    wcalls,       \* calls the wrapped handler has made on its writer
    \* One call of RandomData.
    rdpc,         \* "idle", "done" or "panic"
    rdSize,       \* the size asked for
    rdOut,        \* the string returned
    \* One chaff request: ChaffHandler around a responder.
    rpc,          \* "idle", "write", "written" or "panic"
    details,      \* the profile the handler took
    fn,           \* the ProduceJSONFn of a JSON responder
    cw,           \* the response writer of the chaff request
    rerr,         \* the error responder.Write returned, "nil" for none
    rfill,        \* the size asked of RandomData for the X-Chaff header
    rlogs,        \* lines logged by the handler
    \* History.
    enq           \* the enqueue attempts so far: the sample, and if it got in

trackerVars == <<tracker, err, cap, resp, buffer, size, pos, ch, chClosed,
                 doneClosed, mu, upc, urec, stops, recorded>>
closeVars == <<cpc, closeCalls, closeReturns>>
handlerVars == <<hpc, hd, hchaff, hrec, hsz, hres, nextCalls, respCalls, reqs>>
windowVars == <<profile, profileAt>>
latencyVars == <<lpc, targetMs, elapsedNs, remMs, sleepNs, totalNs>>
proxyVars == <<ppc, wt, direct, wret, dret, wcalls>>
randomVars == <<rdpc, rdSize, rdOut>>
chaffVars == <<rpc, details, fn, cw, rerr, rfill, rlogs>>
sideVars == <<proxyVars, randomVars, chaffVars>>
histVars == <<enq>>
vars == <<trackerVars, closeVars, handlerVars, windowVars, latencyVars,
          sideVars, histVars>>

(***************************************************************************)
(* The http.ResponseWriter a handler is given, and the writeThrough proxy. *)
(***************************************************************************)
HeaderKeys == {"padding", "Content-Type", "X-Chaff"}
EmptyHeader == [k \in HeaderKeys |-> <<>>]
NotSent == [none |-> TRUE]

\* A ResponseWriter nothing was written to: no status yet (code 0), no header
\* block sent, an empty header map and an empty body.
NewWriter ==
    [code |-> 0, sent |-> NotSent, header |-> EmptyHeader, body |-> <<>>]

\* w.Header().Add(k, v): Header() hands out the writer's own map.
HeaderAdd(w, k, v) == [w EXCEPT !.header[k] = Append(@, v)]

\* w.Header().Set(k, v)
HeaderSet(w, k, v) == [w EXCEPT !.header[k] = <<v>>]

\* w.WriteHeader(code): the first call commits the status and the header map
\* as it is now; a later call changes nothing.
WriteHeader(w, code) ==
    IF w.code # 0 THEN w ELSE [w EXCEPT !.code = code, !.sent = w.header]

\* w.Write(b) of which the writer takes the first n bytes: a Write before
\* WriteHeader commits status 200 first.
Write(w, b, n) ==
    [WriteHeader(w, 200) EXCEPT !.body = @ \o SubSeq(b, 1, n)]

\* What Write returns: the bytes taken, and an error when they are not all.
WriteResult(b, n) == [n |-> n, err |-> n < Len(b)]
NoResult == [n |-> 0, err |-> FALSE]

\* &writeThrough{w: w}
writeThrough(w) == [w |-> w, size |-> 0]

\* func (wt *writeThrough) Header() http.Header, and Add on what it returns
writeThrough_HeaderAdd(t, k, v) == [t EXCEPT !.w = HeaderAdd(t.w, k, v)]

\* The proxy swallowing the status.
writeThrough_WriteHeader_Dropped(t, code) == t

\* func (wt *writeThrough) WriteHeader(statusCode int)
writeThrough_WriteHeader(t, code) == [t EXCEPT !.w = WriteHeader(t.w, code)]

\* func (wt *writeThrough) Write(b []byte) (int, error): the size grows by
\* len(b) before the writer is called, whatever the writer then takes.
writeThrough_Write(t, b, n) ==
    [w |-> Write(t.w, b, n), size |-> ToUint64(t.size + Len(b))]

\* func (wt *writeThrough) Size() uint64
writeThrough_Size(t) == t.size

(***************************************************************************)
(* RandomData. A string is the sequence of its characters; "r" stands for  *)
(* any character of the base64 alphabet that encodes random bits.          *)
(***************************************************************************)
\* http.StatusText(http.StatusInternalServerError)
StatusText500 ==
    <<"I", "n", "t", "e", "r", "n", "a", "l", " ", "S", "e", "r", "v", "e",
      "r", " ", "E", "r", "r", "o", "r">>

\* Two characters for every byte, as hex.EncodeToString gives.
EncodeToString_Hex(n) == [i \in 1 .. 2 * n |-> "r"]

\* base64.StdEncoding.EncodeToString of n bytes: four characters for every
\* three bytes or part of them, the last group filled up with "=".
EncodeToString(n) ==
    LET len == 4 * ((n + 2) \div 3)
        pad == (3 - (n % 3)) % 3
    IN  [i \in 1 .. len |-> IF i <= len - pad THEN "r" ELSE "="]

\* base64.StdEncoding.DecodeString: an error unless the string is groups of
\* four alphabet characters with at most two "=" closing the last group;
\* else three bytes a group, less one for every "=".
DecodeString(str) ==
    LET pads == Cardinality({i \in 1 .. Len(str) : str[i] = "="})
        ok == /\ Len(str) % 4 = 0
              /\ pads <= 2
              /\ \A i \in 1 .. Len(str) :
                    IF i <= Len(str) - pads THEN str[i] = "r" ELSE str[i] = "="
    IN  IF ok THEN [err |-> FALSE, len |-> 3 * (Len(str) \div 4) - pads]
        ELSE [err |-> TRUE, len |-> 0]

\* The size taken as the number of raw bytes.
RawSize_NoOverhead(sz) == sz

\* RandomData: size = 3 * size / 4
RawSize(sz) == ToUint64(3 * sz) \div 4

\* buffer := make([]byte, size) panics beyond what can be allocated.
RandomDataPanics(sz) == RawSize(sz) > MaxAlloc

\* RandomData(size), where ok says whether rand.Read delivers; reading into
\* an empty buffer asks the source for nothing and cannot fail.
RandomData(sz, ok) ==
    IF RawSize(sz) > 0 /\ ~ok
    THEN StatusText500
    ELSE EncodeToString(RawSize(sz))

(***************************************************************************)
(* The responders.                                                         *)
(***************************************************************************)
\* const Header
Header == "X-Chaff"
\* uint64(len(Header))
LenHeader == 7
\* const contentHeaderSize
contentHeaderSize == 31

\* "application/json"
ApplicationJSON ==
    <<"a", "p", "p", "l", "i", "c", "a", "t", "i", "o", "n", "/",
      "j", "s", "o", "n">>

\* What a call of Responder.Write leaves: the writer, the error returned
\* ("nil" for none), whether the call panicked instead of returning, and the
\* size RandomData was asked for the X-Chaff header (NoFill when not asked).
NoFill == -1
Returned(w, e, f) == [w |-> w, err |-> e, panic |-> FALSE, fill |-> f]
Panicked(w, f) == [w |-> w, err |-> "nil", panic |-> TRUE, fill |-> f]

\* The header added whatever the size.
PlainHeader_Unconditional(w, headerSize, ok) ==
    HeaderAdd(w, Header, RandomData(headerSize, ok))

\* PlainResponder.Write: if headerSize > 0 { w.Header().Add(Header, ...) }
PlainHeader(w, headerSize, ok) ==
    IF headerSize > 0
    THEN HeaderAdd(w, Header, RandomData(headerSize, ok))
    ELSE w

\* PlainResponder.Write(headerSize, bodySize, w, r). okH and okB say whether
\* rand.Read delivers for the header and for the body, wok whether the
\* writer takes the body.
PlainResponder_Write(headerSize, bodySize, w, okH, okB, wok) ==
    LET w1 == WriteHeader(w, 200)
        fill == IF headerSize > 0 THEN headerSize ELSE NoFill
        w2 == PlainHeader(w1, headerSize, okH)
        data == RandomData(bodySize, okB)
        n == IF wok THEN Len(data) ELSE 0
    IN  IF headerSize > 0 /\ RandomDataPanics(headerSize)
        THEN Panicked(w1, fill)
        ELSE IF bodySize = 0
        THEN Returned(w2, "nil", fill)
        ELSE IF RandomDataPanics(bodySize)
        THEN Panicked(w2, fill)
        ELSE Returned(Write(w2, data, n),
                      IF WriteResult(data, n).err THEN "write" ELSE "nil",
                      fill)

\* The functions a JSONResponder is made with: PaddingWriterFn, and two
\* whose value json.Marshal refuses, the second with a message that holds
\* double quotes.
ProduceJSONFns == {"PaddingWriterFn", "unsupported", "failing"}

\* json.Marshal(&BasicPadding{Padding: data}): none of the characters of
\* data needs escaping.
MarshalPadding(data) ==
    <<"{", "\"", "p", "a", "d", "d", "i", "n", "g", "\"", ":", "\"">> \o data
    \o <<"\"", "}">>

\* err.Error() of the error json.Marshal returns
MarshalError(jfn) ==
    IF jfn = "unsupported"
    THEN
        <<"j", "s", "o", "n", ":", " ", "u", "n", "s", "u", "p", "p",
          "o", "r", "t", "e", "d", " ", "t", "y", "p", "e", ":", " ",
          "c", "h", "a", "n", " ", "i", "n", "t">>
    ELSE
        <<"j", "s", "o", "n", ":", " ", "e", "r", "r", "o", "r", " ",
          "c", "a", "l", "l", "i", "n", "g", " ", "M", "a", "r", "s",
          "h", "a", "l", "J", "S", "O", "N", " ", "f", "o", "r", " ",
          "t", "y", "p", "e", " ", "*", "m", "a", "i", "n", ".", "T",
          ":", " ", "b", "a", "d", " ", "\"", "x", "\"">>

\* fmt.Sprintf("{\"error\": \"%v\"}", msg): the message is put between the
\* quotes as it is.
ErrorBody(msg) ==
    <<"{", "\"", "e", "r", "r", "o", "r", "\"", ":", " ", "\"">> \o msg
    \o <<"\"", "}">>

\* headerSize-contentHeaderSize-uint64(len(Header))
FillerSize(headerSize) == ToUint64(headerSize - contentHeaderSize - LenHeader)

\* JSONResponder.Write(headerSize, bodySize, w, r) of a responder made with
\* jfn. What Fprintf returns is dropped: the writer taking nothing of the
\* body (wok false) changes nothing else.
JSONResponder_Write(headerSize, bodySize, w, jfn, okH, okB, wok) ==
    LET data == RandomData(bodySize, okB)
        bodyData == IF bodySize > 0 THEN MarshalPadding(data) ELSE <<>>
        errBody == ErrorBody(MarshalError(jfn))
        e1 == WriteHeader(w, 500)
        e2 == HeaderSet(e1, "Content-Type", ApplicationJSON)
        e3 == Write(e2, errBody, IF wok THEN Len(errBody) ELSE 0)
        w1 == WriteHeader(w, 200)
        fill == IF headerSize > contentHeaderSize
                THEN FillerSize(headerSize)
                ELSE NoFill
        w2 == IF headerSize > contentHeaderSize
              THEN HeaderAdd(w1, Header, RandomData(fill, okH))
              ELSE w1
        w3 == HeaderSet(w2, "Content-Type", ApplicationJSON)
        w4 == Write(w3, bodyData, IF wok THEN Len(bodyData) ELSE 0)
    IN  IF bodySize > 0 /\ RandomDataPanics(bodySize)
        THEN Panicked(w, NoFill)
        ELSE IF bodySize > 0 /\ jfn # "PaddingWriterFn"
        THEN Returned(e3, "marshal", NoFill)
        ELSE IF headerSize > contentHeaderSize /\ RandomDataPanics(fill)
        THEN Panicked(w1, fill)
        ELSE Returned(w4, "nil", fill)

Handlers == 1 .. NumHandlers
Kinds == 1 .. NumKinds
CapInputs == 0 .. MaxCap
\* Every capacity from below the valid range to above it.
AllCapInputs == -1 .. (DefaultCapacity + 1)
RespInputs == {"nil", "plain"}
AllRespInputs == {"nil", "plain", "json"}
NoProfile == [none |-> TRUE]

\* The process has crashed: a panic in Close is not recovered by anyone.
Crashed == cpc = "panic"

WindowIdle == profile = NoProfile /\ profileAt = 0
LatencyIdle ==
    /\ lpc = "idle" /\ targetMs = 0 /\ elapsedNs = 0
    /\ remMs = 0 /\ sleepNs = 0 /\ totalNs = 0

ProxyIdle ==
    /\ ppc = "idle" /\ wt = writeThrough(NewWriter) /\ direct = NewWriter
    /\ wret = NoResult /\ dret = NoResult /\ wcalls = 0

RandomIdle == rdpc = "idle" /\ rdSize = 0 /\ rdOut = <<>>

ChaffIdle ==
    /\ rpc = "idle" /\ details = ZeroRequest /\ fn = "PaddingWriterFn"
    /\ cw = NewWriter /\ rerr = "nil" /\ rfill = NoFill /\ rlogs = 0

SideIdle == ProxyIdle /\ RandomIdle /\ ChaffIdle

HandlersIdle ==
    /\ hpc = [h \in Handlers |-> "idle"]
    /\ hd = [h \in Handlers |-> "nil"]
    /\ hchaff = [h \in Handlers |-> FALSE]
    /\ hrec = [h \in Handlers |-> ZeroRequest]
    /\ hsz = [h \in Handlers |-> 0]
    /\ hres = [h \in Handlers |-> ZeroRequest]
    /\ nextCalls = [h \in Handlers |-> 0]
    /\ respCalls = [h \in Handlers |-> 0]
    /\ reqs = 0
    /\ enq = <<>>

\* The program before NewTracker is called.
Init ==
    /\ tracker = "unset" /\ err = "unset" /\ cap = 0 /\ resp = "nil"
    /\ buffer = <<>> /\ size = 0 /\ pos = 0
    /\ ch = <<>> /\ chClosed = FALSE /\ doneClosed = FALSE
    /\ mu = MuFree
    /\ upc = "none" /\ urec = ZeroRequest /\ stops = 0
    /\ recorded = <<>>
    /\ cpc = "idle" /\ closeCalls = 0 /\ closeReturns = 0
    /\ HandlersIdle
    /\ WindowIdle
    /\ LatencyIdle
    /\ SideIdle

(***************************************************************************)
(* NewTracker                                                              *)
(***************************************************************************)
NewTracker(r, c) ==
    /\ tracker = "unset"
    /\ cap' = c
    /\ resp' = r
    /\ IF CapInvalid(c)
       THEN /\ err' = "cap" /\ tracker' = "nil" /\ upc' = "none"
       ELSE IF r = "nil"
       THEN /\ err' = "responder" /\ tracker' = "nil" /\ upc' = "none"
       ELSE /\ err' = "none" /\ tracker' = "live" /\ upc' = "select"
    /\ buffer' = <<>> /\ size' = 0 /\ pos' = 0
    /\ ch' = <<>>
    /\ UNCHANGED <<chClosed, doneClosed, mu, urec, stops, recorded>>
    /\ UNCHANGED <<closeVars, handlerVars, windowVars, latencyVars,
                   sideVars, histVars>>

(***************************************************************************)
(* The updater goroutine and recordRequest.                                *)
(***************************************************************************)
\* case record := <-t.ch: the oldest sample of the queue, or nil at once when
\* the queue is closed and empty.
UpdaterReceive ==
    /\ ~Crashed
    /\ upc = "select"
    /\ Len(ch) > 0 \/ chClosed
    /\ urec' = IF Len(ch) > 0 THEN Head(ch) ELSE NilRequest
    /\ ch' = IF Len(ch) > 0 THEN Tail(ch) ELSE ch
    /\ upc' = "rec_lock"
    /\ UNCHANGED <<tracker, err, cap, resp, buffer, size, pos, chClosed,
                   doneClosed, mu, stops, recorded>>
    /\ UNCHANGED <<closeVars, handlerVars, windowVars, latencyVars,
                   sideVars, histVars>>

\* t.mu.Lock(): the writer announces itself, and holds the lock at once when
\* there is no reader.
RecordLock ==
    /\ ~Crashed
    /\ upc = "rec_lock"
    /\ mu.w = "free"
    /\ IF CanLock(mu)
       THEN mu' = [mu EXCEPT !.w = "held"] /\ upc' = "rec_store"
       ELSE mu' = [mu EXCEPT !.w = "pending"] /\ upc' = "rec_wait"
    /\ UNCHANGED <<tracker, err, cap, resp, buffer, size, pos, ch, chClosed,
                   doneClosed, urec, stops, recorded>>
    /\ UNCHANGED <<closeVars, handlerVars, windowVars, latencyVars,
                   sideVars, histVars>>

\* t.mu.Lock(), waiting for the readers to leave.
RecordLockWait ==
    /\ ~Crashed
    /\ upc = "rec_wait"
    /\ CanLock(mu)
    /\ mu' = [mu EXCEPT !.w = "held"]
    /\ upc' = "rec_store"
    /\ UNCHANGED <<tracker, err, cap, resp, buffer, size, pos, ch, chClosed,
                   doneClosed, urec, stops, recorded>>
    /\ UNCHANGED <<closeVars, handlerVars, windowVars, latencyVars,
                   sideVars, histVars>>

\* t.buffer = append(t.buffer, record), or t.buffer[t.pos] = record
RecordStore ==
    /\ ~Crashed
    /\ upc = "rec_store"
    /\ buffer' = StoreRecord(buffer, size, cap, pos, urec)
    /\ upc' = "rec_advance"
    /\ UNCHANGED <<tracker, err, cap, resp, size, pos, ch, chClosed,
                   doneClosed, mu, urec, stops, recorded>>
    /\ UNCHANGED <<closeVars, handlerVars, windowVars, latencyVars,
                   sideVars, histVars>>

\* recordRequest returning with the lock still held.
RecordAdvance_KeepsLock ==
    /\ ~Crashed
    /\ upc = "rec_advance"
    /\ size' = NextSize(size, cap)
    /\ pos' = NextPos(size, cap, pos)
    /\ recorded' = Append(recorded, urec)
    /\ urec' = ZeroRequest
    /\ upc' = "select"
    /\ UNCHANGED <<tracker, err, cap, resp, buffer, ch, chClosed,
                   doneClosed, mu, stops>>
    /\ UNCHANGED <<closeVars, handlerVars, windowVars, latencyVars,
                   sideVars, histVars>>

\* t.size++, or t.pos = (t.pos + 1) % t.cap; then the deferred
\* t.mu.Unlock(), and back to the select.
RecordAdvance ==
    /\ ~Crashed
    /\ upc = "rec_advance"
    /\ size' = NextSize(size, cap)
    /\ pos' = NextPos(size, cap, pos)
    /\ recorded' = Append(recorded, urec)
    /\ mu' = [mu EXCEPT !.w = "free"]
    /\ urec' = ZeroRequest
    /\ upc' = "select"
    /\ UNCHANGED <<tracker, err, cap, resp, buffer, ch, chClosed,
                   doneClosed, stops>>
    /\ UNCHANGED <<closeVars, handlerVars, windowVars, latencyVars,
                   sideVars, histVars>>

(***************************************************************************)
(* Close                                                                   *)
(***************************************************************************)
\* The owner calls Close.
CloseCall ==
    /\ ~Crashed
    /\ tracker = "live"
    /\ cpc = "idle"
    /\ closeCalls < MaxCloses
    /\ closeCalls' = closeCalls + 1
    /\ cpc' = "send"
    /\ UNCHANGED <<closeReturns, trackerVars, handlerVars, windowVars, latencyVars,
                   sideVars, histVars>>

\* A stop signal that does not wait for the updater: the send completes with
\* the updater still in its loop.
CloseSignal_NoHandshake ==
    /\ ~Crashed
    /\ cpc = "send"
    /\ ~doneClosed
    /\ cpc' = "close_ch"
    /\ UNCHANGED <<closeCalls, closeReturns, trackerVars, handlerVars,
                   windowVars, latencyVars, sideVars, histVars>>

\* t.done <- struct{}{} meets case <-t.done of the updater's select: t.done is
\* unbuffered, so the send and the receive are one step. The updater returns.
CloseSignal ==
    /\ ~Crashed
    /\ cpc = "send"
    /\ ~doneClosed
    /\ upc = "select"
    /\ upc' = "exited"
    /\ stops' = stops + 1
    /\ cpc' = "close_ch"
    /\ UNCHANGED <<tracker, err, cap, resp, buffer, size, pos, ch, chClosed,
                   doneClosed, mu, urec, recorded>>
    /\ UNCHANGED <<closeCalls, closeReturns, handlerVars, windowVars, latencyVars,
                   sideVars, histVars>>

\* t.done <- struct{}{} on a closed channel panics.
CloseSendOnClosed ==
    /\ ~Crashed
    /\ cpc = "send"
    /\ doneClosed
    /\ cpc' = "panic"
    /\ UNCHANGED <<closeCalls, closeReturns, trackerVars, handlerVars,
                   windowVars, latencyVars, sideVars, histVars>>

\* close(t.ch); closing a closed channel panics.
CloseCh ==
    /\ ~Crashed
    /\ cpc = "close_ch"
    /\ IF chClosed
       THEN cpc' = "panic" /\ UNCHANGED chClosed
       ELSE cpc' = "close_done" /\ chClosed' = TRUE
    /\ UNCHANGED <<tracker, err, cap, resp, buffer, size, pos, ch,
                   doneClosed, mu, upc, urec, stops, recorded>>
    /\ UNCHANGED <<closeCalls, closeReturns, handlerVars, windowVars, latencyVars,
                   sideVars, histVars>>

\* close(t.done), and Close returns.
CloseDone ==
    /\ ~Crashed
    /\ cpc = "close_done"
    /\ IF doneClosed
       THEN cpc' = "panic" /\ UNCHANGED <<doneClosed, closeReturns>>
       ELSE /\ cpc' = "idle"
            /\ doneClosed' = TRUE
            /\ closeReturns' = closeReturns + 1
    /\ UNCHANGED <<tracker, err, cap, resp, buffer, size, pos, ch,
                   chClosed, mu, upc, urec, stops, recorded>>
    /\ UNCHANGED <<closeCalls, handlerVars, windowVars, latencyVars,
                   sideVars, histVars>>

(***************************************************************************)
(* HandleTrack: one request                                                *)
(***************************************************************************)
\* A request arrives at the handler HandleTrack(d, next) returned; c says
\* whether the request carries the chaff mark d.IsChaff looks for.
HandleStart(h, d, c) ==
    /\ ~Crashed
    /\ tracker = "live"
    /\ hpc[h] \in {"idle", "done"}
    /\ reqs < MaxRequests
    /\ reqs' = reqs + 1
    /\ hd' = [hd EXCEPT ![h] = d]
    /\ hchaff' = [hchaff EXCEPT ![h] = c]
    /\ nextCalls' = [nextCalls EXCEPT ![h] = 0]
    /\ respCalls' = [respCalls EXCEPT ![h] = 0]
    /\ hpc' = [hpc EXCEPT ![h] = IF IsChaffPath(d, c) THEN "snap_rlock" ELSE "next"]
    /\ UNCHANGED <<hrec, hsz, hres>>
    /\ UNCHANGED <<trackerVars, closeVars, windowVars, latencyVars,
                   sideVars, histVars>>

\* next.ServeHTTP(proxyWriter, r) runs and the sample is built from the times,
\* the headers present and the proxy's byte count.
HandleNext(h, k) ==
    /\ ~Crashed
    /\ hpc[h] = "next"
    /\ nextCalls' = [nextCalls EXCEPT ![h] = @ + 1]
    /\ hrec' = [hrec EXCEPT ![h] = KindSample(k)]
    /\ hpc' = [hpc EXCEPT ![h] = "enqueue"]
    /\ UNCHANGED <<hd, hchaff, hsz, hres, respCalls, reqs>>
    /\ UNCHANGED <<trackerVars, closeVars, windowVars, latencyVars,
                   sideVars, histVars>>

\* select { case t.ch <- newRequest(...): default: }
\* A send on a closed channel can proceed, and proceeds by panicking; otherwise
\* the send is taken when the buffer has room, and the default when it is full.
HandleEnqueue(h) ==
    /\ ~Crashed
    /\ hpc[h] = "enqueue"
    /\ IF chClosed
       THEN /\ hpc' = [hpc EXCEPT ![h] = "panic"]
            /\ UNCHANGED <<ch, enq>>
       ELSE IF Len(ch) < cap
       THEN /\ ch' = Enqueue(ch, hrec[h])
            /\ enq' = Append(enq, [rec |-> hrec[h], ok |-> TRUE])
            /\ hpc' = [hpc EXCEPT ![h] = "done"]
       ELSE /\ UNCHANGED ch
            /\ enq' = Append(enq, [rec |-> hrec[h], ok |-> FALSE])
            /\ hpc' = [hpc EXCEPT ![h] = "done"]
    /\ hrec' = [hrec EXCEPT ![h] = ZeroRequest]
    /\ UNCHANGED <<hd, hchaff, hsz, hres, nextCalls, respCalls, reqs>>
    /\ UNCHANGED <<tracker, err, cap, resp, buffer, size, pos, chClosed,
                   doneClosed, mu, upc, urec, stops, recorded>>
    /\ UNCHANGED <<closeVars, windowVars, latencyVars, sideVars>>

\* CalculateProfile: t.mu.RLock()
ProfileRLock(h) ==
    /\ ~Crashed
    /\ hpc[h] = "snap_rlock"
    /\ CanRLock(mu)
    /\ mu' = [mu EXCEPT !.r = @ + 1]
    /\ hpc' = [hpc EXCEPT ![h] = "snap_check"]
    /\ UNCHANGED <<hd, hchaff, hrec, hsz, hres, nextCalls, respCalls, reqs>>
    /\ UNCHANGED <<tracker, err, cap, resp, buffer, size, pos, ch, chClosed,
                   doneClosed, upc, urec, stops, recorded>>
    /\ UNCHANGED <<closeVars, windowVars, latencyVars, sideVars, histVars>>

\* CalculateProfile: if t.size == 0 { return &request{} }, with the deferred
\* t.mu.RUnlock() of that return.
ProfileCheck(h) ==
    /\ ~Crashed
    /\ hpc[h] = "snap_check"
    /\ IF size = 0
       THEN /\ hres' = [hres EXCEPT ![h] = ZeroRequest]
            /\ mu' = [mu EXCEPT !.r = @ - 1]
            /\ hpc' = [hpc EXCEPT ![h] = "respond"]
            /\ UNCHANGED hsz
       ELSE /\ hsz' = [hsz EXCEPT ![h] = size]
            /\ hpc' = [hpc EXCEPT ![h] = "snap_sum"]
            /\ UNCHANGED <<hres, mu>>
    /\ UNCHANGED <<hd, hchaff, hrec, nextCalls, respCalls, reqs>>
    /\ UNCHANGED <<tracker, err, cap, resp, buffer, size, pos, ch, chClosed,
                   doneClosed, upc, urec, stops, recorded>>
    /\ UNCHANGED <<closeVars, windowVars, latencyVars, sideVars, histVars>>

\* CalculateProfile: the loop over t.buffer, the division by t.size, and the
\* deferred t.mu.RUnlock() of the return.
ProfileSum(h) ==
    /\ ~Crashed
    /\ hpc[h] = "snap_sum"
    /\ hres' = [hres EXCEPT ![h] = CalculateProfile(buffer, size)]
    /\ hsz' = [hsz EXCEPT ![h] = 0]
    /\ mu' = [mu EXCEPT !.r = @ - 1]
    /\ hpc' = [hpc EXCEPT ![h] = "respond"]
    /\ UNCHANGED <<hd, hchaff, hrec, nextCalls, respCalls, reqs>>
    /\ UNCHANGED <<tracker, err, cap, resp, buffer, size, pos, ch, chClosed,
                   doneClosed, upc, urec, stops, recorded>>
    /\ UNCHANGED <<closeVars, windowVars, latencyVars, sideVars, histVars>>

\* ChaffHandler: responder.Write(details.headerSize, details.bodySize, w, r),
\* then t.normalizeLatnecy(start, details.latencyMs), and the return. The
\* timing of these steps is the subject of SpecLatency.
ChaffRespond(h) ==
    /\ ~Crashed
    /\ hpc[h] = "respond"
    /\ respCalls' = [respCalls EXCEPT ![h] = @ + 1]
    /\ hres' = [hres EXCEPT ![h] = ZeroRequest]
    /\ hpc' = [hpc EXCEPT ![h] = "done"]
    /\ UNCHANGED <<hd, hchaff, hrec, hsz, nextCalls, reqs>>
    /\ UNCHANGED <<trackerVars, closeVars, windowVars, latencyVars,
                   sideVars, histVars>>

Next ==
    \/ \E r \in RespInputs, c \in CapInputs : NewTracker(r, c)
    \/ UpdaterReceive
    \/ RecordLock
    \/ RecordLockWait
    \/ RecordStore
    \/ RecordAdvance
    \/ CloseCall
    \/ CloseSignal
    \/ CloseSendOnClosed
    \/ CloseCh
    \/ CloseDone
    \/ \E h \in Handlers, d \in {"nil", "det"}, c \in BOOLEAN : HandleStart(h, d, c)
    \/ \E h \in Handlers, k \in Kinds : HandleNext(h, k)
    \/ \E h \in Handlers : HandleEnqueue(h)
    \/ \E h \in Handlers : ProfileRLock(h)
    \/ \E h \in Handlers : ProfileCheck(h)
    \/ \E h \in Handlers : ProfileSum(h)
    \/ \E h \in Handlers : ChaffRespond(h)

Spec == Init /\ [][Next]_vars

(***************************************************************************)
(* Construction alone, over every capacity and responder.                  *)
(***************************************************************************)
NextNew == \E r \in AllRespInputs, c \in AllCapInputs : NewTracker(r, c)

SpecNew == Init /\ [][NextNew]_vars

(***************************************************************************)
(* The window alone: recordRequest and CalculateProfile called directly on *)
(* a fresh tracker, one call after the other.                              *)
(***************************************************************************)
\* The tracker NewTracker(resp, c) returns for a valid c.
FreshTracker(c) ==
    /\ tracker = "live" /\ err = "none" /\ cap = c /\ resp = "plain"
    /\ buffer = <<>> /\ size = 0 /\ pos = 0
    /\ ch = <<>> /\ chClosed = FALSE /\ doneClosed = FALSE
    /\ mu = MuFree
    /\ upc = "select" /\ urec = ZeroRequest /\ stops = 0
    /\ recorded = <<>>
    /\ cpc = "idle" /\ closeCalls = 0 /\ closeReturns = 0
    /\ HandlersIdle

WindowCaps == (1 .. MaxWindowCap) \cup {DefaultCapacity}

\* The samples recorded: every field takes every value of 0 .. MaxField.
WindowSamples ==
    {request(v, MaxField - v, (2 * v) % (MaxField + 1)) : v \in 0 .. MaxField}

InitWindow ==
    /\ \E c \in WindowCaps : FreshTracker(c)
    /\ WindowIdle
    /\ LatencyIdle
    /\ SideIdle

\* t.recordRequest(rec): Lock, the insert, Unlock.
recordRequest(rec) ==
    /\ Len(recorded) < MaxRecords
    /\ mu = MuFree
    /\ buffer' = StoreRecord(buffer, size, cap, pos, rec)
    /\ size' = NextSize(size, cap)
    /\ pos' = NextPos(size, cap, pos)
    /\ recorded' = Append(recorded, rec)
    /\ UNCHANGED <<tracker, err, cap, resp, ch, chClosed, doneClosed, mu,
                   upc, urec, stops>>
    /\ UNCHANGED <<closeVars, handlerVars, windowVars, latencyVars,
                   sideVars, histVars>>

\* A snapshot that empties the window it read.
ProfileCall_Consuming ==
    /\ CanRLock(mu)
    /\ profile' = CalculateProfile(buffer, size)
    /\ profileAt' = Len(recorded)
    /\ buffer' = <<>> /\ size' = 0 /\ pos' = 0
    /\ UNCHANGED <<tracker, err, cap, resp, ch, chClosed, doneClosed, mu,
                   upc, urec, stops, recorded>>
    /\ UNCHANGED <<closeVars, handlerVars, latencyVars, sideVars, histVars>>

\* t.CalculateProfile(): RLock, the computation, RUnlock.
ProfileCall ==
    /\ CanRLock(mu)
    /\ profile' = CalculateProfile(buffer, size)
    /\ profileAt' = Len(recorded)
    /\ UNCHANGED <<trackerVars, closeVars, handlerVars, latencyVars,
                   sideVars, histVars>>

NextWindow ==
    \/ \E rec \in WindowSamples : recordRequest(rec)
    \/ ProfileCall

SpecWindow == InitWindow /\ [][NextWindow]_vars

(***************************************************************************)
(* The timing of one chaff request: ChaffHandler and normalizeLatnecy.     *)
(***************************************************************************)
\* Duration.Milliseconds()
Milliseconds(ns) == ns \div Millisecond

\* The latencies a profile can hold: every sample comes from newRequest, whose
\* latency is the Milliseconds() of a non-negative Duration, and a mean of
\* such values is one of them.
ProfileLatencies == {newRequest(0, e, 0, 0).latencyMs : e \in 0 .. MaxInt64}

\* The subtraction with its operands exchanged.
Remainder_Swapped(target, elapsed) ==
    ToUint64(ToUint64(Milliseconds(elapsed)) - target)

\* normalizeLatnecy: rem := targetMs - uint64(elapsed.Milliseconds())
Remainder(target, elapsed) == ToUint64(target - ToUint64(Milliseconds(elapsed)))

\* The remainder taken as nanoseconds: the unit is forgotten.
SleepDuration_NoUnit(rem) == ToInt64(rem)

\* normalizeLatnecy: time.Duration(rem) * time.Millisecond, an int64 product
SleepDuration(rem) == ToInt64(ToUint64(ToInt64(rem) * Millisecond))

\* time.Sleep(d) returns at once when d <= 0, and else pauses for d or longer.
SleepTime(d, over) == IF d <= 0 THEN 0 ELSE d + over

InitLatency ==
    /\ FreshTracker(1)
    /\ WindowIdle
    /\ lpc = "start" /\ targetMs = 0 /\ elapsedNs = 0
    /\ remMs = 0 /\ sleepNs = 0 /\ totalNs = 0
    /\ SideIdle

\* start := time.Now(); details := t.CalculateProfile()
ChaffProfile(t) ==
    /\ lpc = "start"
    /\ targetMs' = t
    /\ lpc' = "render"
    /\ UNCHANGED <<elapsedNs, remMs, sleepNs, totalNs>>
    /\ UNCHANGED <<trackerVars, closeVars, handlerVars, windowVars,
                   sideVars, histVars>>

\* responder.Write(...) takes its time; then normalizeLatnecy reads the clock
\* (e nanoseconds since start) and works out how long to sleep. Without the
\* call of Sleep (rem = 0) no time is asked for.
normalizeLatnecy(e) ==
    /\ lpc = "render"
    /\ elapsedNs' = e
    /\ remMs' = Remainder(targetMs, e)
    /\ sleepNs' = IF Remainder(targetMs, e) > 0
                  THEN SleepDuration(Remainder(targetMs, e))
                  ELSE 0
    /\ lpc' = "sleep"
    /\ UNCHANGED <<targetMs, totalNs>>
    /\ UNCHANGED <<trackerVars, closeVars, handlerVars, windowVars,
                   sideVars, histVars>>

\* time.Sleep(...), and the handler returns.
ChaffReturn(over) ==
    /\ lpc = "sleep"
    /\ totalNs' = elapsedNs + SleepTime(sleepNs, over)
    /\ lpc' = "done"
    /\ UNCHANGED <<targetMs, elapsedNs, remMs, sleepNs>>
    /\ UNCHANGED <<trackerVars, closeVars, handlerVars, windowVars,
                   sideVars, histVars>>

NextLatency ==
    \/ \E t \in ProfileLatencies : ChaffProfile(t)
    \/ \E e \in 0 .. MaxInt64 : normalizeLatnecy(e)
    \/ \E over \in 0 .. MaxOversleepNs : ChaffReturn(over)

SpecLatency == InitLatency /\ [][NextLatency]_vars

(***************************************************************************)
(* One real request: HandleTrack hands the wrapped handler a writeThrough  *)
(* proxy. The same calls made on the writer itself are kept beside it.     *)
(***************************************************************************)
StatusCodes == {200, 202, 500}
HeaderValues == {"a", "bc"}
\* The byte slices the wrapped handler writes.
Chunks == {<<>>, <<1>>, <<2, 1>>}

InitProxy ==
    /\ FreshTracker(1)
    /\ WindowIdle
    /\ LatencyIdle
    /\ ppc = "next" /\ wt = writeThrough(NewWriter) /\ direct = NewWriter
    /\ wret = NoResult /\ dret = NoResult /\ wcalls = 0
    /\ RandomIdle
    /\ ChaffIdle

\* next calls w.Header().Add(k, v)
NextHeaderAdd(k, v) ==
    /\ ppc = "next" /\ wcalls < MaxCalls
    /\ wt' = writeThrough_HeaderAdd(wt, k, v)
    /\ direct' = HeaderAdd(direct, k, v)
    /\ wret' = NoResult /\ dret' = NoResult
    /\ wcalls' = wcalls + 1
    /\ UNCHANGED ppc
    /\ UNCHANGED <<trackerVars, closeVars, handlerVars, windowVars,
                   latencyVars, randomVars, chaffVars, histVars>>

\* next calls w.WriteHeader(code)
NextWriteHeader(code) ==
    /\ ppc = "next" /\ wcalls < MaxCalls
    /\ wt' = writeThrough_WriteHeader(wt, code)
    /\ direct' = WriteHeader(direct, code)
    /\ wret' = NoResult /\ dret' = NoResult
    /\ wcalls' = wcalls + 1
    /\ UNCHANGED ppc
    /\ UNCHANGED <<trackerVars, closeVars, handlerVars, windowVars,
                   latencyVars, randomVars, chaffVars, histVars>>

\* next calls w.Write(b), and the connection takes n bytes of b
NextWrite(b, n) ==
    /\ ppc = "next" /\ wcalls < MaxCalls
    /\ wt' = writeThrough_Write(wt, b, n)
    /\ direct' = Write(direct, b, n)
    /\ wret' = WriteResult(b, n) /\ dret' = WriteResult(b, n)
    /\ wcalls' = wcalls + 1
    /\ UNCHANGED ppc
    /\ UNCHANGED <<trackerVars, closeVars, handlerVars, windowVars,
                   latencyVars, randomVars, chaffVars, histVars>>

\* next.ServeHTTP returns; HandleTrack reads w.Header() and proxyWriter.Size()
NextReturn ==
    /\ ppc = "next"
    /\ ppc' = "returned"
    /\ UNCHANGED <<wt, direct, wret, dret, wcalls>>
    /\ UNCHANGED <<trackerVars, closeVars, handlerVars, windowVars,
                   latencyVars, randomVars, chaffVars, histVars>>

NextProxy ==
    \/ \E k \in HeaderKeys, v \in HeaderValues : NextHeaderAdd(k, v)
    \/ \E code \in StatusCodes : NextWriteHeader(code)
    \/ \E b \in Chunks : \E n \in 0 .. Len(b) : NextWrite(b, n)
    \/ NextReturn

SpecProxy == InitProxy /\ [][NextProxy]_vars

(***************************************************************************)
(* RandomData called on its own, over every size up to MaxSize.            *)
(***************************************************************************)
InitRandom ==
    /\ FreshTracker(1)
    /\ WindowIdle
    /\ LatencyIdle
    /\ ProxyIdle
    /\ RandomIdle
    /\ ChaffIdle

RandomDataCall(n, ok) ==
    /\ rdpc = "idle"
    /\ rdSize' = n
    /\ IF RandomDataPanics(n)
       THEN rdpc' = "panic" /\ rdOut' = <<>>
       ELSE rdpc' = "done" /\ rdOut' = RandomData(n, ok)
    /\ UNCHANGED <<trackerVars, closeVars, handlerVars, windowVars,
                   latencyVars, proxyVars, chaffVars, histVars>>

NextRandom == \E n \in 0 .. MaxSize, ok \in BOOLEAN : RandomDataCall(n, ok)

SpecRandom == InitRandom /\ [][NextRandom]_vars

(***************************************************************************)
(* One chaff request served by ChaffHandler, on a tracker whose window is  *)
(* empty or was seeded with one sample, as TestChaff seeds it.             *)
(***************************************************************************)
\* The seeds: every header size up to MaxSize, with a body of the same size
\* and with one as far below MaxSize (the two are rendered one without the
\* other), with and without a latency.
SeedSamples ==
    {request(l, b, h) : l \in {0, 1},
                        <<h, b>> \in {<<x, x>> : x \in 0 .. MaxSize}
                               \cup {<<x, MaxSize - x>> : x \in 0 .. MaxSize}}

\* The times rendering can take, in nanoseconds: none, just short of a
\* millisecond, one millisecond and two.
RenderTimes == {0, Millisecond - 1, Millisecond, 2 * Millisecond}

InitChaff ==
    /\ tracker = "live" /\ err = "none" /\ cap = DefaultCapacity
    /\ resp \in {"plain", "json"}
    /\ \/ buffer = <<>> /\ size = 0 /\ recorded = <<>>
       \/ \E rec \in SeedSamples :
             buffer = <<rec>> /\ size = 1 /\ recorded = <<rec>>
    /\ pos = 0
    /\ ch = <<>> /\ chClosed = FALSE /\ doneClosed = FALSE
    /\ mu = MuFree
    /\ upc = "select" /\ urec = ZeroRequest /\ stops = 0
    /\ cpc = "idle" /\ closeCalls = 0 /\ closeReturns = 0
    /\ HandlersIdle
    /\ WindowIdle
    /\ lpc = "start" /\ targetMs = 0 /\ elapsedNs = 0
    /\ remMs = 0 /\ sleepNs = 0 /\ totalNs = 0
    /\ ProxyIdle
    /\ RandomIdle
    /\ rpc = "idle" /\ details = ZeroRequest
    /\ fn \in IF resp = "json" THEN ProduceJSONFns ELSE {"PaddingWriterFn"}
    /\ cw = NewWriter /\ rerr = "nil" /\ rfill = NoFill /\ rlogs = 0

\* start := time.Now(); details := t.CalculateProfile()
ChaffDetails ==
    /\ rpc = "idle" /\ lpc = "start"
    /\ CanRLock(mu)
    /\ details' = CalculateProfile(buffer, size)
    /\ targetMs' = CalculateProfile(buffer, size).latencyMs
    /\ rpc' = "write"
    /\ lpc' = "render"
    /\ UNCHANGED <<fn, cw, rerr, rfill, rlogs>>
    /\ UNCHANGED <<elapsedNs, remMs, sleepNs, totalNs>>
    /\ UNCHANGED <<trackerVars, closeVars, handlerVars, windowVars,
                   proxyVars, randomVars, histVars>>

\* What ChaffHandler does with the outcome o of responder.Write: a panic
\* leaves the handler; an error is logged; then comes normalizeLatnecy.
ChaffWritten(o) ==
    /\ cw' = o.w
    /\ rerr' = o.err
    /\ rfill' = o.fill
    /\ rpc' = IF o.panic THEN "panic" ELSE "written"
    /\ rlogs' = IF ~o.panic /\ o.err # "nil" THEN rlogs + 1 ELSE rlogs
    /\ UNCHANGED <<details, fn>>
    /\ UNCHANGED <<trackerVars, closeVars, handlerVars, windowVars,
                   latencyVars, proxyVars, randomVars, histVars>>

\* responder.Write(details.headerSize, details.bodySize, w, r), PlainResponder
PlainWrite(okH, okB, wok) ==
    /\ rpc = "write" /\ resp = "plain"
    /\ ChaffWritten(PlainResponder_Write(details.headerSize, details.bodySize,
                                         cw, okH, okB, wok))

\* responder.Write(details.headerSize, details.bodySize, w, r), JSONResponder
JSONWrite(okH, okB, wok) ==
    /\ rpc = "write" /\ resp = "json"
    /\ ChaffWritten(JSONResponder_Write(details.headerSize, details.bodySize,
                                        cw, fn, okH, okB, wok))

\* t.normalizeLatnecy(start, details.latencyMs), reached when Write returned
ChaffNormalize(e) == rpc = "written" /\ normalizeLatnecy(e)

NextChaff ==
    \/ ChaffDetails
    \/ \E okH, okB, wok \in BOOLEAN : PlainWrite(okH, okB, wok)
    \/ \E okH, okB, wok \in BOOLEAN : JSONWrite(okH, okB, wok)
    \/ \E e \in RenderTimes : ChaffNormalize(e)
    \/ \E over \in 0 .. MaxOversleepNs : ChaffReturn(over)

SpecChaff == InitChaff /\ [][NextChaff]_vars

(***************************************************************************)
(* Real requests alone: handlers made by Track(next), the updater and      *)
(* Close, on a tracker that has recorded some samples before. Without a    *)
(* chaff request there is no reader, and the updater never waits for the   *)
(* lock.                                                                   *)
(***************************************************************************)
RECURSIVE WindowAfter(_, _)
\* The window of a tracker of capacity c after recordRequest was called with
\* each sample of seq in turn.
WindowAfter(c, seq) ==
    IF seq = <<>> THEN [buffer |-> <<>>, size |-> 0, pos |-> 0]
    ELSE LET w == WindowAfter(c, SubSeq(seq, 1, Len(seq) - 1))
             rec == seq[Len(seq)]
         IN  [buffer |-> StoreRecord(w.buffer, w.size, c, w.pos, rec),
              size |-> NextSize(w.size, c),
              pos |-> NextPos(w.size, c, w.pos)]

\* The samples of n earlier requests, of alternating kinds, each of which was
\* accepted by the queue and recorded.
EarlierSamples(n) == [i \in 1 .. n |-> KindSample(1 + (i % NumKinds))]

InitPipeline ==
    /\ tracker = "live" /\ err = "none" /\ resp = "plain"
    /\ cap \in 1 .. MaxPipeCap
    /\ \E n \in 0 .. MaxEarlier :
          /\ buffer = WindowAfter(cap, EarlierSamples(n)).buffer
          /\ size = WindowAfter(cap, EarlierSamples(n)).size
          /\ pos = WindowAfter(cap, EarlierSamples(n)).pos
          /\ recorded = EarlierSamples(n)
          /\ enq = [i \in 1 .. n |-> [rec |-> EarlierSamples(n)[i], ok |-> TRUE]]
    /\ ch = <<>> /\ chClosed = FALSE /\ doneClosed = FALSE
    /\ mu = MuFree
    /\ upc = "select" /\ urec = ZeroRequest /\ stops = 0
    /\ cpc = "idle" /\ closeCalls = 0 /\ closeReturns = 0
    /\ hpc = [h \in Handlers |-> "idle"]
    /\ hd = [h \in Handlers |-> "nil"]
    /\ hchaff = [h \in Handlers |-> FALSE]
    /\ hrec = [h \in Handlers |-> ZeroRequest]
    /\ hsz = [h \in Handlers |-> 0]
    /\ hres = [h \in Handlers |-> ZeroRequest]
    /\ nextCalls = [h \in Handlers |-> 0]
    /\ respCalls = [h \in Handlers |-> 0]
    /\ reqs = 0
    /\ WindowIdle
    /\ LatencyIdle
    /\ SideIdle

NextPipeline ==
    \/ UpdaterReceive
    \/ RecordLock
    \/ RecordStore
    \/ RecordAdvance
    \/ CloseCall
    \/ CloseSignal
    \/ CloseSendOnClosed
    \/ CloseCh
    \/ CloseDone
    \/ \E h \in Handlers : HandleStart(h, "nil", FALSE)
    \/ \E h \in Handlers, k \in Kinds : HandleNext(h, k)
    \/ \E h \in Handlers : HandleEnqueue(h)

SpecPipeline == InitPipeline /\ [][NextPipeline]_vars

\* The updater is a goroutine of its own: the scheduler lets it take its
\* next step when that step stays possible.
SpecPipelineFair ==
    /\ InitPipeline /\ [][NextPipeline]_vars
    /\ WF_vars(UpdaterReceive \/ RecordLock \/ RecordStore \/ RecordAdvance)

(***************************************************************************)
(* One Close on a tracker in use: a handler made by Track(next), a handler *)
(* made by HandleTrack(d, next) that receives chaff requests, the updater   *)
(* and the owner's only call of Close, on a queue that earlier requests     *)
(* left empty, partly filled or full.                                       *)
(***************************************************************************)
\* The queue after n earlier requests were accepted and none was received.
QueueAfter(n) == [i \in 1 .. n |-> KindSample(1)]

\* The handler serving real requests and the handler serving chaff requests.
RealHandler == 1
ChaffServer == NumHandlers

InitClose ==
    /\ tracker = "live" /\ err = "none" /\ resp = "plain"
    /\ cap \in 1 .. (MaxCap + 1)
    /\ buffer = <<>> /\ size = 0 /\ pos = 0 /\ recorded = <<>>
    /\ \E n \in 0 .. cap :
          /\ ch = QueueAfter(n)
          /\ enq = [i \in 1 .. n |-> [rec |-> QueueAfter(n)[i], ok |-> TRUE]]
    /\ chClosed = FALSE /\ doneClosed = FALSE
    /\ mu = MuFree
    /\ upc = "select" /\ urec = ZeroRequest /\ stops = 0
    /\ cpc = "idle" /\ closeCalls = 0 /\ closeReturns = 0
    /\ hpc = [h \in Handlers |-> "idle"]
    /\ hd = [h \in Handlers |-> "nil"]
    /\ hchaff = [h \in Handlers |-> FALSE]
    /\ hrec = [h \in Handlers |-> ZeroRequest]
    /\ hsz = [h \in Handlers |-> 0]
    /\ hres = [h \in Handlers |-> ZeroRequest]
    /\ nextCalls = [h \in Handlers |-> 0]
    /\ respCalls = [h \in Handlers |-> 0]
    /\ reqs = 0
    /\ WindowIdle
    /\ LatencyIdle
    /\ SideIdle

\* The owner's one call of Close.
CloseOnce == closeCalls = 0 /\ CloseCall

\* The steps of the updater goroutine.
UpdaterStep ==
    \/ UpdaterReceive
    \/ RecordLock
    \/ RecordLockWait
    \/ RecordStore
    \/ RecordAdvance

\* The steps of Close after the call.
CloseStep == CloseSignal \/ CloseCh \/ CloseDone

\* The steps of a chaff request from CalculateProfile on.
SnapshotStep ==
    \/ ProfileRLock(ChaffServer)
    \/ ProfileCheck(ChaffServer)
    \/ ProfileSum(ChaffServer)
    \/ ChaffRespond(ChaffServer)

NextClose ==
    \/ UpdaterStep
    \/ CloseOnce
    \/ CloseStep
    \/ HandleStart(RealHandler, "nil", FALSE)
    \/ HandleNext(RealHandler, 1)
    \/ HandleEnqueue(RealHandler)
    \/ HandleStart(ChaffServer, "det", TRUE)
    \/ SnapshotStep

\* Every goroutine that can take its next step gets to take it: the updater,
\* the caller of Close and a reader inside CalculateProfile.
SpecClose ==
    /\ InitClose /\ [][NextClose]_vars
    /\ WF_vars(UpdaterStep \/ CloseStep \/ SnapshotStep)

(***************************************************************************)
(* One real request from end to end: HandleTrack around a wrapped handler  *)
(* that sets headers, sends a status and writes body bytes, on a tracker    *)
(* whose queue earlier requests left empty or full.                         *)
(***************************************************************************)
RECURSIVE ValuesSize(_)
\* for _, v := range vals { headerSize += uint64(len(v)) }
ValuesSize(vals) ==
    IF vals = <<>> THEN 0
    ELSE ToUint64(Len(Head(vals)) + ValuesSize(Tail(vals)))

RECURSIVE HeaderSizeOver(_, _)
\* for k, vals := range w.Header() { headerSize += uint64(len(k)); ... }
HeaderSizeOver(hdr, keys) ==
    IF keys = {} THEN 0
    ELSE LET k == CHOOSE x \in keys : TRUE
         IN  ToUint64(Len(k) + ValuesSize(hdr[k])
                      + HeaderSizeOver(hdr, keys \ {k}))

\* The names counted and the values left out.
HeaderSize_NamesOnly(hdr) ==
    HeaderSizeOver([k \in DOMAIN hdr |-> <<>>],
                   {k \in DOMAIN hdr : hdr[k] # <<>>})

\* HandleTrack: the size of the headers that are present in w.Header()
HeaderSize(hdr) == HeaderSizeOver(hdr, {k \in DOMAIN hdr : hdr[k] # <<>>})

InitTrack ==
    /\ tracker = "live" /\ err = "none" /\ resp = "plain"
    /\ cap = 1
    /\ buffer = <<>> /\ size = 0 /\ pos = 0 /\ recorded = <<>>
    /\ \E n \in 0 .. cap :
          /\ ch = QueueAfter(n)
          /\ enq = [i \in 1 .. n |-> [rec |-> QueueAfter(n)[i], ok |-> TRUE]]
          /\ reqs = n
    /\ chClosed = FALSE /\ doneClosed = FALSE
    /\ mu = MuFree
    /\ upc = "select" /\ urec = ZeroRequest /\ stops = 0
    /\ cpc = "idle" /\ closeCalls = 0 /\ closeReturns = 0
    /\ hpc = [h \in Handlers |-> "idle"]
    /\ hd = [h \in Handlers |-> "nil"]
    /\ hchaff = [h \in Handlers |-> FALSE]
    /\ hrec = [h \in Handlers |-> ZeroRequest]
    /\ hsz = [h \in Handlers |-> 0]
    /\ hres = [h \in Handlers |-> ZeroRequest]
    /\ nextCalls = [h \in Handlers |-> 0]
    /\ respCalls = [h \in Handlers |-> 0]
    /\ WindowIdle
    /\ LatencyIdle
    /\ SideIdle

\* A request arrives at the handler Track(next) returned: start := time.Now();
\* proxyWriter := &writeThrough{w: w}; and next.ServeHTTP is entered.
TrackStart ==
    /\ tracker = "live"
    /\ hpc[RealHandler] = "idle" /\ ppc = "idle"
    /\ reqs' = reqs + 1
    /\ nextCalls' = [nextCalls EXCEPT ![RealHandler] = 1]
    /\ hpc' = [hpc EXCEPT ![RealHandler] = "next"]
    /\ ppc' = "next"
    /\ wt' = writeThrough(NewWriter)
    /\ direct' = NewWriter
    /\ UNCHANGED <<wret, dret, wcalls>>
    /\ UNCHANGED <<hd, hchaff, hrec, hsz, hres, respCalls>>
    /\ UNCHANGED <<trackerVars, closeVars, windowVars, latencyVars,
                   randomVars, chaffVars, histVars>>

\* A call the wrapped handler makes on the writer it was given.
TrackServe ==
    /\ hpc[RealHandler] = "next"
    /\ \/ \E k \in HeaderKeys, v \in HeaderValues : NextHeaderAdd(k, v)
       \/ \E code \in StatusCodes : NextWriteHeader(code)
       \/ \E b \in Chunks : \E n \in 0 .. Len(b) : NextWrite(b, n)

\* next.ServeHTTP returns e nanoseconds after start: end := time.Now(), the
\* loop over w.Header(), and newRequest(start, end, headerSize,
\* proxyWriter.Size()).
TrackReturn(e) ==
    /\ hpc[RealHandler] = "next" /\ ppc = "next"
    /\ ppc' = "returned"
    /\ elapsedNs' = e
    /\ hrec' = [hrec EXCEPT ![RealHandler] =
                   newRequest(0, e, HeaderSize(wt.w.header),
                              writeThrough_Size(wt))]
    /\ hpc' = [hpc EXCEPT ![RealHandler] = "enqueue"]
    /\ UNCHANGED <<wt, direct, wret, dret, wcalls>>
    /\ UNCHANGED <<lpc, targetMs, remMs, sleepNs, totalNs>>
    /\ UNCHANGED <<hd, hchaff, hsz, hres, nextCalls, respCalls, reqs>>
    /\ UNCHANGED <<trackerVars, closeVars, windowVars, randomVars, chaffVars,
                   histVars>>

NextTrack ==
    \/ TrackStart
    \/ TrackServe
    \/ \E e \in RenderTimes : TrackReturn(e)
    \/ HandleEnqueue(RealHandler)

SpecTrack == InitTrack /\ [][NextTrack]_vars

(***************************************************************************)
(* Chaff requests one after the other, with no real request between them:  *)
(* each is served by ChaffHandler as in SpecChaff, and the next arrives     *)
(* when the one before has returned or has panicked.                        *)
(***************************************************************************)
\* The chaff request is over: the handler returned, or a panic left it.
ChaffOver == lpc = "done" \/ rpc = "panic"

\* A chaff response that is sampled as a real one would be.
ChaffAgain_Sampled ==
    /\ ChaffOver
    /\ reqs + 1 < MaxRequests
    /\ reqs' = reqs + 1
    /\ profile' = details
    /\ profileAt' = Len(recorded)
    /\ rpc' = "idle" /\ details' = ZeroRequest
    /\ cw' = NewWriter /\ rerr' = "nil" /\ rfill' = NoFill
    /\ lpc' = "start" /\ targetMs' = 0 /\ elapsedNs' = 0
    /\ remMs' = 0 /\ sleepNs' = 0 /\ totalNs' = 0
    /\ ch' = Enqueue(ch, newRequest(0, elapsedNs, 0, Len(cw.body)))
    /\ UNCHANGED <<fn, rlogs>>
    /\ UNCHANGED <<hpc, hd, hchaff, hrec, hsz, hres, nextCalls, respCalls>>
    /\ UNCHANGED <<tracker, err, cap, resp, buffer, size, pos, chClosed,
                   doneClosed, mu, upc, urec, stops, recorded>>
    /\ UNCHANGED <<closeVars, proxyVars, randomVars, histVars>>

\* The next chaff request arrives: HandleTrack finds it is chaff and hands it
\* to ChaffHandler, with a writer of its own. The snapshot the request before
\* took is kept for comparison.
ChaffAgain ==
    /\ ChaffOver
    /\ reqs + 1 < MaxRequests
    /\ reqs' = reqs + 1
    /\ profile' = details
    /\ profileAt' = Len(recorded)
    /\ rpc' = "idle" /\ details' = ZeroRequest
    /\ cw' = NewWriter /\ rerr' = "nil" /\ rfill' = NoFill
    /\ lpc' = "start" /\ targetMs' = 0 /\ elapsedNs' = 0
    /\ remMs' = 0 /\ sleepNs' = 0 /\ totalNs' = 0
    /\ UNCHANGED <<fn, rlogs>>
    /\ UNCHANGED <<hpc, hd, hchaff, hrec, hsz, hres, nextCalls, respCalls>>
    /\ UNCHANGED <<trackerVars, closeVars, proxyVars, randomVars, histVars>>

NextChaffs ==
    \/ NextChaff
    \/ ChaffAgain

SpecChaffs == InitChaff /\ [][NextChaffs]_vars

(***************************************************************************)
(* Properties.                                                             *)
(***************************************************************************)
RECURSIVE PlainSum(_, _)
\* The sum of a field over a sequence of samples, in the integers.
PlainSum(seq, f) ==
    IF seq = <<>> THEN 0 ELSE Head(seq)[f] + PlainSum(Tail(seq), f)

Min(a, b) == IF a < b THEN a ELSE b

\* The n most recent samples of a history.
LastN(seq, n) == SubSeq(seq, Len(seq) - n + 1, Len(seq))

\* The truncated mean of each field over a sequence of samples.
TruncatedMean(seq) ==
    IF seq = <<>> THEN ZeroRequest
    ELSE request(PlainSum(seq, "latencyMs") \div Len(seq),
                 PlainSum(seq, "bodySize") \div Len(seq),
                 PlainSum(seq, "headerSize") \div Len(seq))

\* The samples recorded when the last profile was taken.
RecordedAtProfile == SubSeq(recorded, 1, profileAt)

\* C1: after n recordRequest calls on a fresh tracker of capacity c,
\* CalculateProfile returns, field by field, the truncated mean of the most
\* recent min(n, c) samples recorded.
C1_ProfileIsMeanOfWindow ==
    profile # NoProfile =>
        profile = TruncatedMean(LastN(RecordedAtProfile, Min(profileAt, cap)))

\* C1 witness: a profile taken after the window wrapped around, with a mean
\* that the division truncated and that the evicted samples would change.
C1_Witness ==
    /\ profile # NoProfile
    /\ profileAt > cap
    /\ profileAt = Len(recorded)
    /\ PlainSum(LastN(recorded, cap), "latencyMs") % cap # 0
    /\ profile # TruncatedMean(recorded)

\* C2: the enqueue step of a real request on a full queue drops the sample:
\* the queue and the window are unchanged and the handler returns normally.
C2_FullQueueDrops ==
    [][\A h \in Handlers :
          (hpc[h] = "enqueue" /\ hpc'[h] # "enqueue" /\ Len(ch) = cap) =>
              /\ ch' = ch
              /\ buffer' = buffer /\ size' = size /\ pos' = pos
              /\ hpc'[h] = "done"]_vars

\* C3: a second call of Close on a closed tracker does not panic.
C3_SecondCloseNoPanic == ~(closeCalls >= 2 /\ cpc = "panic")

\* C4: no request handler panics in its enqueue step, whenever Close runs.
C4_NoSendOnClosedChannel == \A h \in Handlers : hpc[h] # "panic"

\* C5: the channels are closed only after the updater received the stop
\* signal and left its loop, the signal is received at most once, and once
\* Close has returned the window and the history of recorded samples never
\* change again.
C5_StopBeforeRelease ==
    /\ [](/\ stops <= 1
          /\ (chClosed \/ doneClosed) => (upc = "exited" /\ stops = 1))
    /\ [][closeReturns >= 1 =>
            /\ buffer' = buffer /\ size' = size /\ pos' = pos
            /\ recorded' = recorded]_vars

\* C5 witness: Close has returned and left a sample waiting in the queue.
C5_Witness ==
    /\ closeReturns >= 1
    /\ chClosed /\ doneClosed
    /\ upc = "exited"
    /\ Len(ch) > 0

\* Where a handler holds the read lock, and where the updater holds the lock.
ReaderSection == {"snap_check", "snap_sum"}
WriterSection == {"rec_store", "rec_advance"}

\* C6: a record holds the lock alone, readers hold it together, and a reader
\* inside CalculateProfile sees a window no record is changing: the length of
\* the buffer agrees with size, and size is still what the reader first read.
C6_SnapshotExcludesRecord ==
    /\ mu.r = Cardinality({h \in Handlers : hpc[h] \in ReaderSection})
    /\ (mu.w = "held") <=> (upc \in WriterSection)
    /\ mu.w = "held" => mu.r = 0
    /\ \A h \in Handlers :
          /\ hpc[h] \in ReaderSection =>
                (upc \notin WriterSection /\ Len(buffer) = size)
          /\ hpc[h] = "snap_sum" => hsz[h] = size

\* C6 witness: a snapshot holds the read lock and the updater, with a record
\* in hand, waits for it to leave.
C6_Witness ==
    /\ mu.r = 1
    /\ mu.w = "pending"
    /\ upc = "rec_wait"
    /\ \E h \in Handlers : hpc[h] = "snap_check"

C8_ExactlyOnePath ==
    \A h \in Handlers :
        LET chaff == hd[h] # "nil" /\ hchaff[h] IN
        /\ nextCalls[h] + respCalls[h] <= 1
        /\ chaff => nextCalls[h] = 0
        /\ ~chaff => respCalls[h] = 0
        /\ hpc[h] \in {"done", "panic"} =>
              IF chaff THEN respCalls[h] = 1 ELSE nextCalls[h] = 1

\* C8 witness: one handler finished a chaff request and the other a real
\* request that carried the chaff mark but had no detector.
C8_Witness ==
    \E h, g \in Handlers :
        /\ hpc[h] = "done" /\ hd[h] = "det" /\ hchaff[h] /\ respCalls[h] = 1
        /\ hpc[g] = "done" /\ hd[g] = "nil" /\ hchaff[g] /\ nextCalls[g] = 1

\* C9: a chaff request returns no earlier than details.latencyMs
\* milliseconds after its start.
C9_ChaffTakesAtLeastMean ==
    lpc = "done" => totalNs >= targetMs * Millisecond

\* C9 witness: the rendering was shorter than the target and the handler
\* slept for the rest.
C9_Witness ==
    /\ lpc = "done"
    /\ targetMs > 0
    /\ Milliseconds(elapsedNs) < targetMs
    /\ elapsedNs % Millisecond # 0
    /\ sleepNs > 0

\* C10: when the elapsed milliseconds are at or above the target, the
\* Duration handed to time.Sleep is not positive and no delay is added.
C10_NoDelayOnOvershoot ==
    (lpc \in {"sleep", "done"} /\ Milliseconds(elapsedNs) >= targetMs) =>
        /\ sleepNs <= 0
        /\ lpc = "done" => totalNs = elapsedNs

\* C10 witness: the elapsed time was above the target, the unsigned
\* remainder wrapped around, and the handler returned with no delay.
C10_Witness ==
    /\ lpc = "done"
    /\ Milliseconds(elapsedNs) > targetMs
    /\ remMs > MaxInt64
    /\ sleepNs < 0
    /\ totalNs = elapsedNs

\* C11: on the real path the writer behind the proxy has received, call for
\* call, what the wrapped handler would have given it directly -- the same
\* status, the same headers (in the map and as sent) and the same body bytes
\* -- and the proxy has returned what the writer returned.
C11_ProxyForwardsEverything == wt.w = direct /\ wret = dret

\* The wrapped handler set a header, sent status 202 and wrote a body.
C11_Witness ==
    /\ ppc = "returned"
    /\ wt.w.code = 202
    /\ wt.w.sent["padding"] = <<"a">>
    /\ wt.w.body = <<2, 1>>
    /\ wret = WriteResult(<<2, 1>>, 2)

\* x is within one percent of n.
WithinOnePercent(x, n) == 99 * n <= 100 * x /\ 100 * x <= 101 * n

\* Sizes of which one percent is no less than the two characters by which a
\* base64 string can miss a length.
IsLarge(n) == n >= 2 * 100

C12_EmptyWindowPlainChaff ==
    (size = 0 /\ resp = "plain") =>
        /\ rpc # "panic"
        /\ rpc # "idle" => details = ZeroRequest
        /\ rpc = "written" =>
              /\ cw.code = 200
              /\ cw.header[Header] = <<>> /\ cw.sent[Header] = <<>>
              /\ cw.body = <<>>
              /\ rerr = "nil"
        /\ lpc = "sleep" => sleepNs <= 0
        /\ lpc = "done" => totalNs = elapsedNs

\* A chaff request on an empty window whose rendering took two milliseconds
\* has returned.
C12_Witness ==
    /\ size = 0 /\ resp = "plain"
    /\ rpc = "written" /\ lpc = "done"
    /\ cw.code = 200
    /\ elapsedNs = 2 * Millisecond

\* The X-Chaff values in the header map of the chaff response.
ChaffHeader == cw.header[Header]

\* The plain responder has answered a chaff request whose profile has a
\* header size and a body size above zero.
PlainAnswered ==
    /\ resp = "plain" /\ rpc = "written"
    /\ details.headerSize > 0 /\ details.bodySize > 0

\* x is within two of n.
WithinTwo(x, n) == n - 2 <= x /\ x <= n + 2

\* C13 as stated: for every profile with H > 0 and B > 0 the plain responder
\* answers with status 200, an X-Chaff value whose length is within 1% of H
\* and a body whose length is within 1% of B.
C13_PlainWithinOnePercent ==
    /\ resp = "plain" => rpc # "panic"
    /\ PlainAnswered =>
          /\ cw.code = 200
          /\ Len(ChaffHeader) = 1
          /\ WithinOnePercent(Len(ChaffHeader[1]), details.headerSize)
          /\ WithinOnePercent(Len(cw.body), details.bodySize)

\* C13: for every profile with H > 0 and B > 0 the plain responder answers
\* with status 200 and one X-Chaff value in the header map; unless the
\* random source fails, the value's length is within two characters of H,
\* and within 1% of H when H is large; unless the random source fails or the
\* writer refuses the body, the same holds of the body and B.
C13_PlainWithinTwo ==
    /\ resp = "plain" => rpc # "panic"
    /\ PlainAnswered =>
          /\ cw.code = 200
          /\ Len(ChaffHeader) = 1
          /\ ChaffHeader[1] # StatusText500 =>
                /\ WithinTwo(Len(ChaffHeader[1]), details.headerSize)
                /\ IsLarge(details.headerSize) =>
                      WithinOnePercent(Len(ChaffHeader[1]), details.headerSize)
          /\ (cw.body # StatusText500 /\ rerr = "nil") =>
                /\ WithinTwo(Len(cw.body), details.bodySize)
                /\ IsLarge(details.bodySize) =>
                      WithinOnePercent(Len(cw.body), details.bodySize)

\* A profile of 250 and 250 answered with 252 characters in the header and
\* 252 in the body.
C13_Witness ==
    /\ PlainAnswered
    /\ details.headerSize = 250 /\ details.bodySize = 250
    /\ cw.code = 200
    /\ Len(ChaffHeader[1]) = 252 /\ Len(cw.body) = 252

\* C15: whenever JSONResponder.Write asks RandomData for the X-Chaff filler,
\* the size it asks for is headerSize - 31 - len("X-Chaff") taken without
\* wraparound, so at most headerSize, and the call does not panic.
C15_FillerAtMostHeaderSize ==
    (resp = "json" /\ rfill # NoFill) =>
        /\ rfill = details.headerSize - contentHeaderSize - LenHeader
        /\ rfill <= details.headerSize
        /\ rpc # "panic"

\* b is the JSON object {"error": "<message>"}: the message sits between the
\* quotes and holds no quote or backslash of its own.
IsErrorJSON(b) ==
    LET msg == SubSeq(b, Len(ErrorBody(<<>>)) - 1, Len(b) - 2)
    IN  /\ b = ErrorBody(msg)
        /\ \A i \in 1 .. Len(msg) : msg[i] \notin {"\"", "\\"}

\* C16: when json.Marshal fails, JSONResponder.Write has set status 500 and
\* not 200, the body it has written is a JSON error object, no X-Chaff filler
\* is in the header map, the error is returned and not a panic; ChaffHandler
\* logs it once, and goes on to normalizeLatnecy, after which the request
\* has taken the profile's latency or what rendering took.
C16_MarshalFailureAnswered ==
    /\ (resp = "json" /\ rpc = "panic") =>
          details.bodySize = 0 \/ fn = "PaddingWriterFn"
    /\ rerr = "marshal" =>
          /\ rpc = "written"
          /\ cw.code = 500
          /\ cw.body # <<>> => IsErrorJSON(cw.body)
          /\ ChaffHeader = <<>>
          /\ rfill = NoFill
          /\ rlogs = 1
          /\ lpc \in {"render", "sleep", "done"}
          /\ lpc \in {"sleep", "done"} => remMs = Remainder(targetMs, elapsedNs)
          /\ lpc = "done" =>
                /\ totalNs >= elapsedNs
                /\ Milliseconds(totalNs) >= targetMs

\* A recordRequest on a full window.
InsertOnFull == size = cap /\ Len(recorded') = Len(recorded) + 1

\* The oldest sample of a full window, and the sample an insert brings.
OldestSample == recorded[Len(recorded) - cap + 1]
NewSample == recorded'[Len(recorded')]

Abs(x) == IF x < 0 THEN -x ELSE x
Fields == {"latencyMs", "bodySize", "headerSize"}

\* The insert puts the new sample where the oldest was and leaves the rest.
ReplacesOldest ==
    /\ buffer[pos + 1] = OldestSample
    /\ buffer' = [buffer EXCEPT ![pos + 1] = NewSample]
    /\ size' = size
    /\ \A f \in Fields :
          PlainSum(buffer', f) = PlainSum(buffer, f) + NewSample[f] - OldestSample[f]

\* C17 as stated: an insert on a full window replaces the oldest sample, and
\* the snapshot after it differs from the snapshot before it whenever the new
\* sample differs from the one replaced.
C17_EvictionChangesSnapshot ==
    [][InsertOnFull =>
          /\ ReplacesOldest
          /\ NewSample # OldestSample =>
                CalculateProfile(buffer', size') # CalculateProfile(buffer, size)
      ]_vars

\* C17: an insert on a full window of capacity c replaces the oldest sample
\* and changes each field's sum by the difference of the two; the snapshot
\* after it differs from the snapshot before it whenever the new sample
\* differs from the one replaced by c or more in some field.
C17_EvictionReplacesOldest ==
    [][InsertOnFull =>
          /\ ReplacesOldest
          /\ (\E f \in Fields : Abs(NewSample[f] - OldestSample[f]) >= cap) =>
                CalculateProfile(buffer', size') # CalculateProfile(buffer, size)
      ]_vars

\* A window of capacity 2 or more after its first eviction, the new sample
\* unlike the evicted one.
C17_Witness ==
    /\ cap >= 2 /\ size = cap
    /\ Len(recorded) = cap + 1
    /\ recorded[cap + 1] # recorded[1]
    /\ \E f \in Fields : Abs(recorded[cap + 1][f] - recorded[1][f]) >= cap

\* No recordRequest is inside its critical section.
NotRecording == mu.w # "held"

\* C18: the window and the queue are well formed in every state: the buffer
\* and the queue hold no more than cap samples, size is the length of the
\* buffer whenever no recordRequest holds the write lock (inside it the buffer
\* is written first and size second), 0 <= pos < cap, pos = 0 while
\* size < cap, no entry of the buffer is nil; and size never decreases.
C18_WindowWellFormed ==
    /\ [](/\ Len(buffer) <= cap /\ size <= cap
          /\ NotRecording => size = Len(buffer)
          /\ 0 <= pos /\ pos < cap
          /\ size < cap => pos = 0
          /\ \A i \in 1 .. Len(buffer) : buffer[i] # NilRequest
          /\ Len(ch) <= cap)
    /\ [][size' >= size]_vars

\* A full window of capacity 2 whose cursor a real request's sample has
\* moved on, with another sample waiting in the queue.
C18_Witness ==
    /\ cap = 2 /\ size = cap /\ pos = 1
    /\ Len(enq) = 4 /\ Len(recorded) = 3
    /\ Len(ch) = 1

\* The samples of the enqueue attempts, and of those the queue accepted.
AttemptSamples == [i \in 1 .. Len(enq) |-> enq[i].rec]
IsAccepted(a) == a.ok
AcceptedSamples ==
    [i \in 1 .. Len(SelectSeq(enq, IsAccepted)) |->
        SelectSeq(enq, IsAccepted)[i].rec]

IsPrefix(s, t) == Len(s) <= Len(t) /\ s = SubSeq(t, 1, Len(s))

\* No sample was dropped, the queue is empty and the updater is back at its
\* select, on a tracker nobody has closed.
DrainedWithoutDrop ==
    /\ \A i \in 1 .. Len(enq) : enq[i].ok
    /\ ch = <<>> /\ upc = "select"
    /\ closeCalls = 0

\* C19: with the updater scheduled fairly, every sample the queue accepted is
\* recorded unless Close is called first (time and again the samples recorded
\* are all those accepted), and recorded once: the samples recorded are
\* always the first of those accepted, in their order. Hence
\* when no sample was dropped and the queue is drained, the snapshot is the
\* truncated mean of the samples of the last min(n, cap) requests.
C19_AcceptedIsRecorded ==
    /\ []<>(recorded = AcceptedSamples \/ closeCalls > 0)
    /\ [](IsPrefix(recorded, AcceptedSamples))
    /\ [](DrainedWithoutDrop =>
             CalculateProfile(buffer, size)
                 = TruncatedMean(LastN(AttemptSamples, Min(Len(enq), cap))))

\* Two real requests were accepted and recorded on top of the earlier ones,
\* more samples than the window holds, and the queue is drained.
C19_Witness ==
    /\ DrainedWithoutDrop
    /\ Len(enq) = MaxEarlier + 2
    /\ recorded = AttemptSamples
    /\ Len(enq) > cap
    /\ \A h \in Handlers : hpc[h] = "done"

\* The sample the updater has received and not yet recorded.
InFlight ==
    IF upc \in {"rec_lock", "rec_wait", "rec_store", "rec_advance"}
    THEN <<urec>>
    ELSE <<>>

RECURSIVE IsSubsequence(_, _)
\* s is t with some elements left out, the others in their order.
IsSubsequence(s, t) ==
    IF s = <<>> THEN TRUE
    ELSE IF t = <<>> THEN FALSE
    ELSE IF Head(s) = Head(t) THEN IsSubsequence(Tail(s), Tail(t))
    ELSE IsSubsequence(s, Tail(t))

\* C20: samples are recorded in the order in which the queue accepted them:
\* the samples recorded, the one being recorded and those waiting in the
\* queue are, in this order, the samples of the accepted attempts, so that
\* the recorded sequence is the sequence of enqueue attempts with the dropped
\* and the not yet recorded ones left out, none moved and none repeated.
C20_RecordedInQueueOrder ==
    /\ recorded \o InFlight \o ch = AcceptedSamples
    /\ IsSubsequence(recorded, AttemptSamples)

\* On a tracker of capacity 2, two requests with different samples were
\* both accepted and both recorded, the first accepted first.
C20_Witness ==
    /\ cap = 2
    /\ Len(enq) = MaxEarlier + 2
    /\ enq[Len(enq)].ok /\ enq[Len(enq) - 1].ok
    /\ enq[Len(enq)].rec # enq[Len(enq) - 1].rec
    /\ recorded = AcceptedSamples
    /\ stops = 0

\* C21: a single Close call on a tracker that was never closed before
\* eventually returns, whatever the queue holds and whatever snapshots and
\* enqueues run beside it.
C21_SingleCloseReturns == (closeCalls = 1) ~> (closeReturns = 1)

\* Close has returned with the queue still full, a snapshot under way and an
\* enqueue attempt about to be made.
C21_Witness ==
    /\ closeCalls = 1 /\ closeReturns = 1
    /\ Len(ch) = cap
    /\ hpc[ChaffServer] \in ReaderSection
    /\ hpc[RealHandler] = "enqueue"

\* The length of a header's name and of all its values, for a header that is
\* present.
NameAndValues(hdr, k) ==
    IF hdr[k] = <<>> THEN 0
    ELSE Len(k) + PlainSum([i \in 1 .. Len(hdr[k]) |-> [len |-> Len(hdr[k][i])]],
                           "len")

\* The sample HandleTrack is to build: the elapsed milliseconds, the proxy's
\* byte count, and the names and values of the headers the wrapped handler
\* left on the writer.
SampleOfRequest ==
    request(Milliseconds(elapsedNs),
            wt.size,
            NameAndValues(direct.header, "padding")
            + NameAndValues(direct.header, "Content-Type")
            + NameAndValues(direct.header, "X-Chaff"))

\* The requests that have made their enqueue attempt.
PastEnqueue ==
    IF hpc[RealHandler] \in {"next", "enqueue"} THEN reqs - 1 ELSE reqs

\* C22: each real request makes exactly one enqueue attempt, made only after
\* the wrapped handler has returned, with a sample whose headerSize is the
\* sum over the response headers of the name's length and the lengths of all
\* its values, whose bodySize is the proxy's byte count and whose latencyMs
\* is the elapsed time around the wrapped handler.
C22_OneAttemptWithTheSample ==
    /\ Len(enq) = PastEnqueue
    /\ nextCalls[RealHandler] <= 1
    /\ hpc[RealHandler] = "enqueue" =>
          ppc = "returned" /\ hrec[RealHandler] = SampleOfRequest
    /\ hpc[RealHandler] = "done" =>
          ppc = "returned" /\ enq[Len(enq)].rec = SampleOfRequest

\* A request whose wrapped handler set two headers, one of them twice, and
\* wrote two bytes has made its attempt on a full queue.
C22_Witness ==
    /\ hpc[RealHandler] = "done"
    /\ ~enq[Len(enq)].ok
    /\ enq[Len(enq)].rec.headerSize > Len("Content-Type") + Len("padding") + 2
    /\ enq[Len(enq)].rec.bodySize = 2
    /\ enq[Len(enq)].rec.latencyMs = 1

\* The rendering of the request before went wrong: the responder returned an
\* error, or panicked.
RenderingFailed == rerr # "nil" \/ rpc = "panic"

\* C23: a chaff request, whether its rendering succeeds or fails, leaves the
\* window (buffer, size, pos) and the queue unchanged, so the snapshot of a
\* chaff request equals the snapshot of the chaff request before it.
C23_ChaffLeavesTrackerAlone ==
    /\ [][/\ buffer' = buffer /\ size' = size /\ pos' = pos
          /\ ch' = ch /\ enq' = enq]_vars
    /\ [](rpc # "idle" /\ profile # NoProfile => details = profile)
    /\ [](rpc # "idle" => details = CalculateProfile(buffer, size))

\* A second chaff request on a window that is not empty has taken the
\* snapshot the first one took, and its responder has panicked.
C23_Witness ==
    /\ reqs = 1
    /\ rpc = "panic"
    /\ profile # NoProfile /\ profile.headerSize > 0
    /\ size > 0

C25_HeadersSetBeforeStatus ==
    cw.sent # NotSent => \A k \in HeaderKeys : cw.sent[k] = cw.header[k]

\* C26: after the wrapped handler has returned, writeThrough.Size() equals
\* the number of body bytes written to the real sink through the proxy, for
\* every sequence of Write calls, those whose underlying write fails or is
\* partial included; Header and WriteHeader calls never change the count.
C26_SizeIsBytesWritten ==
    ppc = "returned" => writeThrough_Size(wt) = Len(wt.w.body)

====
